---- MODULE Spec2Model ----
(***************************************************************************)
(* Model of getWithdrawalStatus                                            *)
(* (src/chains/opStack/actions/getWithdrawalStatus.ts).                    *)
(*                                                                         *)
(* One call of getWithdrawalStatus is: the synchronous prefix (extract the *)
(* withdrawals of the receipt, throw if there is none, otherwise start the *)
(* four reads handed to Promise.allSettled), the settlement of each of the *)
(* four promises in any order, and the continuation after the await, which *)
(* inspects the four settled results in a fixed order.  The caller may     *)
(* repeat the call against the same answers.                               *)
(***************************************************************************)
EXTENDS Integers, Sequences, FiniteSets, TLC

VARIABLES
    receipt,               \* the withdrawals getWithdrawals finds in the receipt
    sources,               \* what each of the four external data sources answers
    pc,                    \* position of the call: "idle", "awaiting", "done"
    issued,                \* how many times each read was started in this call
    outputResult,          \* settled result of getL2Output
    proveResult,           \* settled result of readContract provenWithdrawals
    finalizedResult,       \* settled result of readContract finalizedWithdrawals
    timeToFinalizeResult,  \* settled result of getTimeToFinalize
    order,                 \* the reads in the order in which they settled
    status,                \* value the call returned, "none" if it did not
    error,                 \* error the call threw, NoError if it did not
    calls,                 \* number of calls started so far
    history                \* (status, error, first read settled) of the earlier calls

vars == <<receipt, sources, pc, issued, outputResult, proveResult,
          finalizedResult, timeToFinalizeResult, order, status, error,
          calls, history>>

----------------------------------------------------------------------------
(* Bounds *)

MaxWithdrawals == 2      \* withdrawals in a receipt: 0..MaxWithdrawals
MaxTimestamp == 1        \* proof timestamps: 0..MaxTimestamp (0 = not proven)
MaxSeconds == 2          \* remaining window: -1..MaxSeconds
MaxCalls == 2            \* calls the caller makes against the same answers

----------------------------------------------------------------------------
(* Values *)

Queries == {"getL2Output", "provenWithdrawals", "finalizedWithdrawals",
            "getTimeToFinalize"}

Statuses == {"waiting-to-prove", "ready-to-prove", "waiting-to-finalize",
             "ready-to-finalize", "finalized"}

NotProposedMessage ==
    "L2OutputOracle: cannot get output for a block that has not been proposed"

\* An error: its class, the class of its cause, and data.args[0] of the cause.
NoError == [name |-> "none", cause |-> "none", arg0 |-> "none"]

ReceiptContainsNoWithdrawalsError ==
    [name |-> "ReceiptContainsNoWithdrawalsError", cause |-> "none",
     arg0 |-> "none"]

Causes == {"ContractFunctionRevertedError", "OtherError"}
Arg0s == {NotProposedMessage, "other revert reason", "undefined"}

\* Every way getL2Output can fail.
OutputErrors ==
    [name : {"GetL2OutputError"}, cause : Causes, arg0 : Arg0s]

\* Failures of the other three reads: one that looks exactly like the
\* recognised getL2Output failure, and one that does not.
ReadErrors(n) ==
    { [name |-> n, cause |-> "ContractFunctionRevertedError",
       arg0 |-> NotProposedMessage],
      [name |-> n, cause |-> "OtherError", arg0 |-> "undefined"] }

\* PromiseSettledResult: status, value (when fulfilled), reason (when rejected)
Pending(v) == [status |-> "pending", value |-> v, reason |-> NoError]
Fulfilled(v) == [status |-> "fulfilled", value |-> v, reason |-> NoError]
Rejected(v, e) == [status |-> "rejected", value |-> v, reason |-> e]

OutputOutcomes ==
    {Fulfilled(0)} \cup {Rejected(0, e) : e \in OutputErrors}
ProveOutcomes ==
    {Fulfilled(t) : t \in 0..MaxTimestamp}
        \cup {Rejected(0, e) : e \in ReadErrors("ProvenWithdrawalsError")}
FinalizedOutcomes ==
    {Fulfilled(b) : b \in BOOLEAN}
        \cup {Rejected(FALSE, e) : e \in ReadErrors("FinalizedWithdrawalsError")}
TimeToFinalizeOutcomes ==
    {Fulfilled(s) : s \in (-1)..MaxSeconds}
        \cup {Rejected(0, e) : e \in ReadErrors("GetTimeToFinalizeError")}

Receipts == {[i \in 1..n |-> i] : n \in 0..MaxWithdrawals}

----------------------------------------------------------------------------
(* Pure parts of getWithdrawalStatus *)

\* getWithdrawals(receipt): the withdrawals found in the receipt's logs
getWithdrawals(r) == r

\* const [withdrawal] = ...; 0 stands for undefined
FirstWithdrawal(ws) == IF Len(ws) = 0 THEN 0 ELSE ws[1]

Return(s) == [status |-> s, error |-> NoError]
Throw(e) == [status |-> "none", error |-> e]

\* variant: any revert of getL2Output is taken for the recognised one
IsNotProposedCauseOnly(e) ==
    e.cause = "ContractFunctionRevertedError"

\* variant: the text alone is tested, not the class of the cause
IsNotProposedTextOnly(e) ==
    e.arg0 = NotProposedMessage

\* lines 131-135: the recognised failure of getL2Output
IsNotProposed(e) ==
    /\ e.cause = "ContractFunctionRevertedError"
    /\ e.arg0 = NotProposedMessage

\* variant: the proof timestamp test is inverted
StatusOfValuesInvertedProve(proveTimestamp, finalized, seconds) ==
    IF proveTimestamp # 0 THEN Return("ready-to-prove")
    ELSE IF finalized THEN Return("finalized")
    ELSE IF seconds > 0 THEN Return("waiting-to-finalize")
    ELSE Return("ready-to-finalize")

\* variant: the window is looked at before the finalization record
StatusOfValuesWindowFirst(proveTimestamp, finalized, seconds) ==
    IF proveTimestamp = 0 THEN Return("ready-to-prove")
    ELSE IF seconds > 0 THEN Return("waiting-to-finalize")
    ELSE IF finalized THEN Return("finalized")
    ELSE Return("ready-to-finalize")

\* variant: seconds >= 0 instead of seconds > 0
StatusOfValuesInclusive(proveTimestamp, finalized, seconds) ==
    IF proveTimestamp = 0 THEN Return("ready-to-prove")
    ELSE IF finalized THEN Return("finalized")
    ELSE IF seconds >= 0 THEN Return("waiting-to-finalize")
    ELSE Return("ready-to-finalize")

\* variant: the finalization record is tested before the proof timestamp
StatusOfValuesFinalizedFirst(proveTimestamp, finalized, seconds) ==
    IF finalized THEN Return("finalized")
    ELSE IF proveTimestamp = 0 THEN Return("ready-to-prove")
    ELSE IF seconds > 0 THEN Return("waiting-to-finalize")
    ELSE Return("ready-to-finalize")

\* variant: the finalization record is not tested
StatusOfValuesSkipFinalized(proveTimestamp, finalized, seconds) ==
    IF proveTimestamp = 0 THEN Return("ready-to-prove")
    ELSE IF seconds > 0 THEN Return("waiting-to-finalize")
    ELSE Return("ready-to-finalize")

\* lines 144-151: all four reads fulfilled
StatusOfValues(proveTimestamp, finalized, seconds) ==
    IF proveTimestamp = 0 THEN Return("ready-to-prove")
    ELSE IF finalized THEN Return("finalized")
    ELSE IF seconds > 0 THEN Return("waiting-to-finalize")
    ELSE Return("ready-to-finalize")

\* variant: the rejection of the proof read is tested before getL2Output's
DecisionProveFirst(o, p, f, t) ==
    IF p.status = "rejected" THEN Throw(p.reason)
    ELSE IF o.status = "rejected"
    THEN IF IsNotProposed(o.reason)
         THEN Return("waiting-to-prove")
         ELSE Throw(o.reason)
    ELSE IF f.status = "rejected" THEN Throw(f.reason)
    ELSE IF t.status = "rejected" THEN Throw(t.reason)
    ELSE StatusOfValues(p.value, f.value, t.value)

\* variant: getTimeToFinalize's rejection is tested only where seconds is read
DecisionLazyTimeToFinalize(o, p, f, t) ==
    IF o.status = "rejected"
    THEN IF IsNotProposed(o.reason)
         THEN Return("waiting-to-prove")
         ELSE Throw(o.reason)
    ELSE IF p.status = "rejected" THEN Throw(p.reason)
    ELSE IF f.status = "rejected" THEN Throw(f.reason)
    ELSE IF p.value = 0 THEN Return("ready-to-prove")
    ELSE IF f.value THEN Return("finalized")
    ELSE IF t.status = "rejected" THEN Throw(t.reason)
    ELSE StatusOfValues(p.value, f.value, t.value)

\* variant: the rejection of getTimeToFinalize is not tested; seconds of a
\* rejected result is undefined, and undefined > 0 is false
DecisionNoTimeCheck(o, p, f, t) ==
    IF o.status = "rejected"
    THEN IF IsNotProposed(o.reason)
         THEN Return("waiting-to-prove")
         ELSE Throw(o.reason)
    ELSE IF p.status = "rejected" THEN Throw(p.reason)
    ELSE IF f.status = "rejected" THEN Throw(f.reason)
    ELSE StatusOfValues(p.value, f.value,
                        IF t.status = "rejected" THEN 0 ELSE t.value)

\* variant: a rejected proof read ends the call with a bare return
DecisionSwallow(o, p, f, t) ==
    IF o.status = "rejected"
    THEN IF IsNotProposed(o.reason)
         THEN Return("waiting-to-prove")
         ELSE Throw(o.reason)
    ELSE IF p.status = "rejected" THEN Return("none")
    ELSE IF f.status = "rejected" THEN Throw(f.reason)
    ELSE IF t.status = "rejected" THEN Throw(t.reason)
    ELSE StatusOfValues(p.value, f.value, t.value)

\* lines 129-151: the continuation after the await
Decision(o, p, f, t) ==
    IF o.status = "rejected"
    THEN IF IsNotProposed(o.reason)
         THEN Return("waiting-to-prove")
         ELSE Throw(o.reason)
    ELSE IF p.status = "rejected" THEN Throw(p.reason)
    ELSE IF f.status = "rejected" THEN Throw(f.reason)
    ELSE IF t.status = "rejected" THEN Throw(t.reason)
    ELSE StatusOfValues(p.value, f.value, t.value)

----------------------------------------------------------------------------
(* State machine *)

Init ==
    /\ receipt \in Receipts
    /\ sources \in [oracle : OutputOutcomes, proofs : ProveOutcomes,
                    finals : FinalizedOutcomes, window : TimeToFinalizeOutcomes]
    /\ pc = "idle"
    /\ issued = [q \in Queries |-> 0]
    /\ outputResult = Pending(0)
    /\ proveResult = Pending(0)
    /\ finalizedResult = Pending(FALSE)
    /\ timeToFinalizeResult = Pending(0)
    /\ order = <<>>
    /\ status = "none"
    /\ error = NoError
    /\ calls = 0
    /\ history = {}

\* variant: the four reads are started before the withdrawal is tested
EnterIssueFirst ==
    /\ pc = "idle"
    /\ calls < MaxCalls
    /\ calls' = calls + 1
    /\ issued' = [q \in Queries |-> issued[q] + 1]
    /\ IF FirstWithdrawal(getWithdrawals(receipt)) = 0
       THEN /\ error' = ReceiptContainsNoWithdrawalsError
            /\ pc' = "done"
       ELSE /\ pc' = "awaiting"
            /\ UNCHANGED error
    /\ UNCHANGED <<receipt, sources, outputResult, proveResult,
                   finalizedResult, timeToFinalizeResult, order, status,
                   history>>

\* lines 88-125: entry of getWithdrawalStatus up to the await
Enter ==
    /\ pc = "idle"
    /\ calls < MaxCalls
    /\ calls' = calls + 1
    /\ IF FirstWithdrawal(getWithdrawals(receipt)) = 0
       THEN /\ error' = ReceiptContainsNoWithdrawalsError
            /\ pc' = "done"
            /\ UNCHANGED issued
       ELSE /\ issued' = [q \in Queries |-> issued[q] + 1]
            /\ pc' = "awaiting"
            /\ UNCHANGED error
    /\ UNCHANGED <<receipt, sources, outputResult, proveResult,
                   finalizedResult, timeToFinalizeResult, order, status,
                   history>>

\* variant: a rejected getL2Output is started a second time
SettleOutputRetry ==
    /\ pc = "awaiting"
    /\ issued["getL2Output"] > 0
    /\ outputResult.status = "pending"
    /\ IF sources.oracle.status = "rejected" /\ issued["getL2Output"] = 1
       THEN /\ issued' = [issued EXCEPT !["getL2Output"] = 2]
            /\ UNCHANGED <<outputResult, order>>
       ELSE /\ outputResult' = sources.oracle
            /\ order' = Append(order, "getL2Output")
            /\ UNCHANGED issued
    /\ UNCHANGED <<receipt, sources, pc, proveResult, finalizedResult,
                   timeToFinalizeResult, status, error, calls, history>>

\* lines 105-108: the getL2Output promise settles
SettleOutput ==
    /\ pc = "awaiting"
    /\ issued["getL2Output"] > 0
    /\ outputResult.status = "pending"
    /\ outputResult' = sources.oracle
    /\ order' = Append(order, "getL2Output")
    /\ UNCHANGED <<receipt, sources, pc, issued, proveResult, finalizedResult,
                   timeToFinalizeResult, status, error, calls, history>>

\* variant: reading the proof record clears it
SettleProveConsume ==
    /\ pc = "awaiting"
    /\ issued["provenWithdrawals"] > 0
    /\ proveResult.status = "pending"
    /\ proveResult' = sources.proofs
    /\ sources' = [sources EXCEPT !.proofs = Fulfilled(0)]
    /\ order' = Append(order, "provenWithdrawals")
    /\ UNCHANGED <<receipt, pc, issued, outputResult, finalizedResult,
                   timeToFinalizeResult, status, error, calls, history>>

\* lines 109-114: the provenWithdrawals read settles
SettleProve ==
    /\ pc = "awaiting"
    /\ issued["provenWithdrawals"] > 0
    /\ proveResult.status = "pending"
    /\ proveResult' = sources.proofs
    /\ order' = Append(order, "provenWithdrawals")
    /\ UNCHANGED <<receipt, sources, pc, issued, outputResult, finalizedResult,
                   timeToFinalizeResult, status, error, calls, history>>

\* lines 115-120: the finalizedWithdrawals read settles
SettleFinalized ==
    /\ pc = "awaiting"
    /\ issued["finalizedWithdrawals"] > 0
    /\ finalizedResult.status = "pending"
    /\ finalizedResult' = sources.finals
    /\ order' = Append(order, "finalizedWithdrawals")
    /\ UNCHANGED <<receipt, sources, pc, issued, outputResult, proveResult,
                   timeToFinalizeResult, status, error, calls, history>>

\* lines 121-124: the getTimeToFinalize promise settles
SettleTimeToFinalize ==
    /\ pc = "awaiting"
    /\ issued["getTimeToFinalize"] > 0
    /\ timeToFinalizeResult.status = "pending"
    /\ timeToFinalizeResult' = sources.window
    /\ order' = Append(order, "getTimeToFinalize")
    /\ UNCHANGED <<receipt, sources, pc, issued, outputResult, proveResult,
                   finalizedResult, status, error, calls, history>>

\* Promise.allSettled resolves once none of its promises is pending
AllSettled ==
    /\ outputResult.status # "pending"
    /\ proveResult.status # "pending"
    /\ finalizedResult.status # "pending"
    /\ timeToFinalizeResult.status # "pending"

\* the settled result of a read
ResultOf(q) ==
    CASE q = "getL2Output" -> outputResult
      [] q = "provenWithdrawals" -> proveResult
      [] q = "finalizedWithdrawals" -> finalizedResult
      [] OTHER -> timeToFinalizeResult

\* the reads that were rejected, as positions in the order of settlement
RejectedAt == {i \in 1..Len(order) : ResultOf(order[i]).status = "rejected"}

\* variant: Promise.all in place of Promise.allSettled; the call throws the
\* reason of the read that was rejected first in time
DecideRace ==
    /\ pc = "awaiting"
    /\ AllSettled
    /\ IF RejectedAt = {}
       THEN LET d == Decision(outputResult, proveResult, finalizedResult,
                              timeToFinalizeResult)
            IN /\ status' = d.status
               /\ error' = d.error
       ELSE LET i == CHOOSE j \in RejectedAt : \A k \in RejectedAt : j <= k
            IN /\ status' = "none"
               /\ error' = ResultOf(order[i]).reason
    /\ pc' = "done"
    /\ UNCHANGED <<receipt, sources, issued, outputResult, proveResult,
                   finalizedResult, timeToFinalizeResult, order, calls,
                   history>>

\* variant: the await gives up with a timeout error while a read is pending
DecideTimeout ==
    /\ pc = "awaiting"
    /\ IF AllSettled
       THEN LET d == Decision(outputResult, proveResult, finalizedResult,
                              timeToFinalizeResult)
            IN /\ status' = d.status
               /\ error' = d.error
       ELSE /\ status' = "none"
            /\ error' = [name |-> "TimeoutError", cause |-> "none",
                         arg0 |-> "none"]
    /\ pc' = "done"
    /\ UNCHANGED <<receipt, sources, issued, outputResult, proveResult,
                   finalizedResult, timeToFinalizeResult, order, calls,
                   history>>

\* variant: the continuation runs only if every read was fulfilled
DecideWhenAllFulfilled ==
    /\ pc = "awaiting"
    /\ outputResult.status = "fulfilled"
    /\ proveResult.status = "fulfilled"
    /\ finalizedResult.status = "fulfilled"
    /\ timeToFinalizeResult.status = "fulfilled"
    /\ LET d == Decision(outputResult, proveResult, finalizedResult,
                         timeToFinalizeResult)
       IN /\ status' = d.status
          /\ error' = d.error
    /\ pc' = "done"
    /\ UNCHANGED <<receipt, sources, issued, outputResult, proveResult,
                   finalizedResult, timeToFinalizeResult, order, calls,
                   history>>

\* variant: Promise.all-like short circuit; the continuation runs as soon as
\* getL2Output is rejected, without waiting for the other reads
DecideShortCircuit ==
    /\ pc = "awaiting"
    /\ AllSettled \/ outputResult.status = "rejected"
    /\ LET d == Decision(outputResult, proveResult, finalizedResult,
                         timeToFinalizeResult)
       IN /\ status' = d.status
          /\ error' = d.error
    /\ pc' = "done"
    /\ UNCHANGED <<receipt, sources, issued, outputResult, proveResult,
                   finalizedResult, timeToFinalizeResult, order, calls,
                   history>>

\* lines 103-104, 129-151: the await resumes and the call returns or throws
Decide ==
    /\ pc = "awaiting"
    /\ AllSettled
    /\ LET d == Decision(outputResult, proveResult, finalizedResult,
                         timeToFinalizeResult)
       IN /\ status' = d.status
          /\ error' = d.error
    /\ pc' = "done"
    /\ UNCHANGED <<receipt, sources, issued, outputResult, proveResult,
                   finalizedResult, timeToFinalizeResult, order, calls,
                   history>>

\* the read that settled first in this call
FirstSettled == IF order = <<>> THEN "none" ELSE order[1]

\* the caller resolves the same receipt again (spec section 7: the caller
\* decides whether to retry the entire resolution)
Again ==
    /\ pc = "done"
    /\ calls < MaxCalls
    /\ history' = history \cup {[status |-> status, error |-> error,
                                  first |-> FirstSettled]}
    /\ pc' = "idle"
    /\ issued' = [q \in Queries |-> 0]
    /\ outputResult' = Pending(0)
    /\ proveResult' = Pending(0)
    /\ finalizedResult' = Pending(FALSE)
    /\ timeToFinalizeResult' = Pending(0)
    /\ order' = <<>>
    /\ status' = "none"
    /\ error' = NoError
    /\ UNCHANGED <<receipt, sources, calls>>

Next ==
    \/ Enter
    \/ SettleOutput
    \/ SettleProve
    \/ SettleFinalized
    \/ SettleTimeToFinalize
    \/ Decide
    \/ Again

Spec == Init /\ [][Next]_vars

\* One call, run to its end: the caller starts it, each started read
\* eventually settles (the transport's responsibility), and the event loop
\* resumes the continuation once Promise.allSettled has resolved.
NextCall ==
    \/ Enter
    \/ SettleOutput
    \/ SettleProve
    \/ SettleFinalized
    \/ SettleTimeToFinalize
    \/ Decide

FairSpec ==
    /\ Init
    /\ [][NextCall]_vars
    /\ WF_vars(Enter)
    /\ WF_vars(SettleOutput)
    /\ WF_vars(SettleProve)
    /\ WF_vars(SettleFinalized)
    /\ WF_vars(SettleTimeToFinalize)
    /\ WF_vars(Decide)

----------------------------------------------------------------------------
(* Properties *)

Done == pc = "done"

OutputFailed == outputResult.status = "rejected"
ProveFailed == proveResult.status = "rejected"
FinalizedFailed == finalizedResult.status = "rejected"
TimeToFinalizeFailed == timeToFinalizeResult.status = "rejected"

\* getL2Output failed with the "not yet published" revert
OutputNotYetPublished ==
    /\ OutputFailed
    /\ outputResult.reason.cause = "ContractFunctionRevertedError"
    /\ outputResult.reason.arg0 = NotProposedMessage

AllFulfilled ==
    /\ outputResult.status = "fulfilled"
    /\ proveResult.status = "fulfilled"
    /\ finalizedResult.status = "fulfilled"
    /\ timeToFinalizeResult.status = "fulfilled"

\* C1: when getL2Output failed with the recognised "not yet published"
\* condition the call returns 'waiting-to-prove' and throws nothing, whatever
\* the other three reads did, failures included.
C1_NotYetPublishedIsWaitingToProve ==
    (Done /\ OutputNotYetPublished)
        => (status = "waiting-to-prove" /\ error = NoError)

C1_Witness ==
    /\ Done
    /\ OutputNotYetPublished
    /\ ProveFailed /\ FinalizedFailed /\ TimeToFinalizeFailed
    /\ status = "waiting-to-prove"

\* C2: when getL2Output failed with anything else the call returns no status
\* and throws exactly that error, whatever the other three reads did.
C2_OtherOutputFailurePropagates ==
    (Done /\ OutputFailed /\ ~OutputNotYetPublished)
        => /\ status = "none"
           /\ error = outputResult.reason
           /\ error = sources.oracle.reason

C2_Witness ==
    /\ Done
    /\ OutputFailed
    /\ outputResult.reason.cause = "ContractFunctionRevertedError"
    /\ outputResult.reason.arg0 = "other revert reason"
    /\ ProveFailed
    /\ error = outputResult.reason

\* getL2Output succeeded, the proof timestamp is absent, not finalized
NotProvenNotFinalized ==
    /\ outputResult.status = "fulfilled"
    /\ proveResult.status = "fulfilled" /\ proveResult.value = 0
    /\ finalizedResult.status = "fulfilled" /\ finalizedResult.value = FALSE

\* C3 as stated: with getL2Output fulfilled, an absent proof timestamp and
\* finalized = false the call returns 'ready-to-prove' for every outcome of
\* getTimeToFinalize, its failure included.
C3_Original ==
    (Done /\ NotProvenNotFinalized) => status = "ready-to-prove"

\* C3 (amended): with getL2Output fulfilled, an absent proof timestamp and
\* finalized = false the call returns 'ready-to-prove' for every window
\* getTimeToFinalize succeeds with; when getTimeToFinalize failed the call
\* returns no status and throws getTimeToFinalize's error.
C3_ReadyToProveUnlessWindowFailed ==
    (Done /\ NotProvenNotFinalized)
        => IF TimeToFinalizeFailed
           THEN status = "none" /\ error = timeToFinalizeResult.reason
           ELSE status = "ready-to-prove" /\ error = NoError

C3_Witness ==
    /\ Done
    /\ NotProvenNotFinalized
    /\ timeToFinalizeResult.status = "fulfilled"
    /\ timeToFinalizeResult.value > 0
    /\ status = "ready-to-prove"

\* C4: a receipt without withdrawals makes the call throw
\* ReceiptContainsNoWithdrawalsError, and none of the four reads is ever
\* started or settled in that call.
C4_NoWithdrawalNoQueries ==
    (Len(receipt) = 0)
        => /\ \A q \in Queries : issued[q] = 0
           /\ pc # "awaiting"
           /\ order = <<>>
           /\ Done => (error = ReceiptContainsNoWithdrawalsError
                       /\ status = "none")

C4_Witness ==
    /\ Len(receipt) = 0
    /\ Done
    /\ error = ReceiptContainsNoWithdrawalsError
    /\ sources.oracle.status = "fulfilled"
    /\ sources.proofs.status = "rejected"

\* C5: when getL2Output succeeded and one of the other reads failed, the call
\* returns no status and throws the unchanged error of the first failed read
\* in the order provenWithdrawals, finalizedWithdrawals, getTimeToFinalize,
\* whatever the successful reads returned and whichever failed first in time.
C5_FirstFailureInFixedOrder ==
    (Done /\ outputResult.status = "fulfilled"
          /\ (ProveFailed \/ FinalizedFailed \/ TimeToFinalizeFailed))
        => /\ status = "none"
           /\ error = IF ProveFailed THEN sources.proofs.reason
                      ELSE IF FinalizedFailed THEN sources.finals.reason
                      ELSE sources.window.reason

C5_Witness ==
    /\ Done
    /\ outputResult.status = "fulfilled"
    /\ ProveFailed
    /\ finalizedResult.status = "fulfilled" /\ finalizedResult.value = TRUE
    /\ TimeToFinalizeFailed
    /\ order[1] = "getTimeToFinalize"
    /\ error = proveResult.reason

\* C6: all four reads succeeded, the proof timestamp is present and the
\* withdrawal is finalized: the call returns 'finalized' for every window,
\* a positive one included.
C6_FinalizedBeforeWindow ==
    (Done /\ AllFulfilled /\ proveResult.value # 0
          /\ finalizedResult.value = TRUE)
        => (status = "finalized" /\ error = NoError)

C6_Witness ==
    /\ Done
    /\ AllFulfilled
    /\ proveResult.value # 0
    /\ finalizedResult.value = TRUE
    /\ timeToFinalizeResult.value > 0
    /\ status = "finalized"

\* C7: all four reads succeeded, the proof timestamp is present and the
\* withdrawal is not finalized: the call returns 'waiting-to-finalize'
\* exactly when the window is > 0 and 'ready-to-finalize' exactly when it
\* is <= 0.
C7_WindowDecides ==
    (Done /\ AllFulfilled /\ proveResult.value # 0
          /\ finalizedResult.value = FALSE)
        => /\ error = NoError
           /\ (status = "waiting-to-finalize") <=> (timeToFinalizeResult.value > 0)
           /\ (status = "ready-to-finalize") <=> (timeToFinalizeResult.value <= 0)

C7_Witness ==
    /\ Done
    /\ AllFulfilled
    /\ proveResult.value # 0
    /\ finalizedResult.value = FALSE
    /\ timeToFinalizeResult.value = 0
    /\ status = "ready-to-finalize"

\* C8: a call that has ended has either returned one of the five statuses
\* and thrown nothing, or thrown an error and returned nothing.
C8_ExactlyOneOutcome ==
    Done => \/ (status \in Statuses /\ error = NoError)
            \/ (status = "none" /\ error # NoError)

C8_Witness ==
    /\ Done
    /\ outputResult.status = "fulfilled"
    /\ ProveFailed
    /\ finalizedResult.status = "fulfilled"
    /\ timeToFinalizeResult.status = "fulfilled"
    /\ status = "none"
    /\ error # NoError

\* C9: every call on the same receipt against the same four answers ends
\* with the same status or error as the earlier calls, whatever the order in
\* which the four reads settled.
C9_SameAnswersSameResult ==
    Done => \A h \in history : h.status = status /\ h.error = error

C9_Witness ==
    /\ Done
    /\ OutputFailed /\ ProveFailed
    /\ \E h \in history :
          /\ h.first = "provenWithdrawals"
          /\ order[1] = "getL2Output"
          /\ h.error = error

\* C10: no step of a call changes what the four external data sources hold.
C10_SourcesUnchanged == [][sources' = sources]_vars

C10_Witness ==
    /\ Done
    /\ AllSettled
    /\ outputResult = sources.oracle
    /\ proveResult = sources.proofs
    /\ proveResult.status = "fulfilled" /\ proveResult.value # 0
    /\ finalizedResult = sources.finals
    /\ timeToFinalizeResult = sources.window

\* the call has produced a result: it returned a status or threw an error
HasResult == status # "none" \/ error # NoError

\* C11: a call that passed the withdrawal test has a result only in a state
\* where all four reads have settled; while the call awaits, every read that
\* is still pending can still settle, also after another read (getL2Output
\* included) was rejected, and the continuation cannot run.
C11_JoinBarrier ==
    /\ (Len(receipt) > 0 /\ HasResult) => (Done /\ AllSettled /\ Len(order) = 4)
    /\ (pc = "awaiting" /\ ~AllSettled) => ~ENABLED Decide
    /\ (pc = "awaiting" /\ outputResult.status = "pending") => ENABLED SettleOutput
    /\ (pc = "awaiting" /\ proveResult.status = "pending") => ENABLED SettleProve
    /\ (pc = "awaiting" /\ finalizedResult.status = "pending")
           => ENABLED SettleFinalized
    /\ (pc = "awaiting" /\ timeToFinalizeResult.status = "pending")
           => ENABLED SettleTimeToFinalize

C11_Witness ==
    /\ Done
    /\ OutputFailed /\ ~OutputNotYetPublished
    /\ order[1] = "getL2Output"
    /\ Len(order) = 4
    /\ AllSettled
    /\ error = outputResult.reason

\* C12: when every started read eventually settles, every call eventually
\* ends with a status or an error; a call on a receipt without withdrawals
\* ends in its first step, without awaiting anything.
C12_Terminates ==
    /\ (pc = "idle") ~> (Done /\ HasResult)
    /\ (pc = "awaiting") ~> (Done /\ HasResult)
    /\ [][(pc = "idle" /\ Len(receipt) = 0) => pc' = "done"]_vars

C12_Witness ==
    /\ Done
    /\ Len(order) = 4
    /\ ProveFailed
    /\ outputResult.status = "fulfilled"
    /\ error = proveResult.reason
    /\ calls = 1

\* C13: in a call that passed the withdrawal test each of the four reads is
\* started exactly once, all four in the one step that precedes every
\* settlement; each settles once, none is started again, and the result of a
\* finished call (its error included) is set once and not changed.
C13_NoRetries ==
    /\ []((Len(receipt) > 0 /\ pc \in {"awaiting", "done"})
            => \A q \in Queries : issued[q] = 1)
    /\ [](pc = "idle" => \A q \in Queries : issued[q] = 0)
    /\ [](\A i, j \in 1..Len(order) : order[i] = order[j] => i = j)
    /\ [][issued' # issued
            => \/ /\ pc = "idle" /\ pc' = "awaiting"
                  /\ order = <<>> /\ ~HasResult
                  /\ \A q \in Queries : issued[q] = 0 /\ issued'[q] = 1
               \/ pc = "done" /\ pc' = "idle"]_vars
    /\ [][(Done /\ pc' = "done") => (error' = error /\ status' = status)]_vars
    /\ [][(~Done /\ pc' = "done") => (~HasResult /\ HasResult')]_vars

C13_Witness ==
    /\ Done
    /\ OutputFailed /\ ~OutputNotYetPublished
    /\ FinalizedFailed
    /\ \A q \in Queries : issued[q] = 1
    /\ Len(order) = 4
    /\ error = outputResult.reason

\* C14: getL2Output's failure counts as "not yet published" only when its
\* cause is a ContractFunctionRevertedError and the first revert argument is
\* exactly the L2OutputOracle text; a revert with another text, and a failure
\* of another kind that carries the text, is thrown unchanged and never
\* yields 'waiting-to-prove'.
C14_RecognitionNeedsCauseAndText ==
    /\ (Done /\ status = "waiting-to-prove")
          => /\ outputResult.status = "rejected"
             /\ outputResult.reason.cause = "ContractFunctionRevertedError"
             /\ outputResult.reason.arg0 = NotProposedMessage
    /\ (Done /\ outputResult.status = "rejected"
             /\ (\/ outputResult.reason.cause # "ContractFunctionRevertedError"
                 \/ outputResult.reason.arg0 # NotProposedMessage))
          => (status = "none" /\ error = outputResult.reason)

C14_Witness ==
    /\ Done
    /\ outputResult.status = "rejected"
    /\ outputResult.reason.cause = "OtherError"
    /\ outputResult.reason.arg0 = NotProposedMessage
    /\ status = "none"
    /\ error = outputResult.reason

\* C15: all four reads succeeded and the proof timestamp is absent: the call
\* returns 'ready-to-prove' also when the withdrawal reads as finalized, for
\* every window.
C15_AbsentProofBeforeFinalized ==
    (Done /\ AllFulfilled /\ proveResult.value = 0)
        => (status = "ready-to-prove" /\ error = NoError)

C15_Witness ==
    /\ Done
    /\ AllFulfilled
    /\ proveResult.value = 0
    /\ finalizedResult.value = TRUE
    /\ timeToFinalizeResult.value <= 0
    /\ status = "ready-to-prove"

\* C16: 'waiting-to-finalize' and 'ready-to-finalize' are returned only when
\* finalizedWithdrawals succeeded with false and provenWithdrawals succeeded
\* with a present timestamp; a finalized withdrawal never reads as
\* 'ready-to-finalize', whatever the window.
C16_PendingFinalizationNotFinalized ==
    /\ (Done /\ status \in {"waiting-to-finalize", "ready-to-finalize"})
          => /\ finalizedResult.status = "fulfilled"
             /\ finalizedResult.value = FALSE
             /\ proveResult.status = "fulfilled"
             /\ proveResult.value # 0
    /\ (Done /\ finalizedResult.status = "fulfilled"
             /\ finalizedResult.value = TRUE)
          => status # "ready-to-finalize"

C16_Witness ==
    /\ Done
    /\ AllFulfilled
    /\ proveResult.value # 0
    /\ finalizedResult.value = TRUE
    /\ timeToFinalizeResult.value < 0
    /\ status = "finalized"

\* C17: 'waiting-to-prove' is returned only when getL2Output failed with the
\* recognised condition; every other status is returned only when all four
\* reads succeeded.
C17_StatusOnlyFromSuccess ==
    /\ (Done /\ status = "waiting-to-prove") => OutputNotYetPublished
    /\ (Done /\ status \in Statuses \ {"waiting-to-prove"}) => AllFulfilled

C17_Witness ==
    /\ Done
    /\ AllFulfilled
    /\ status = "waiting-to-finalize"
    /\ order[4] = "getL2Output"

\* C18: while one of the four reads has not settled the call does not end:
\* it has no result, the continuation cannot run and no step ends the call,
\* also when getL2Output is already rejected, with the recognised condition
\* or with another error.
C18_NoResultWhilePending ==
    /\ []((pc = "awaiting" /\ ~AllSettled) => (~HasResult /\ ~ENABLED Decide))
    /\ [][(pc = "awaiting" /\ ~AllSettled) => pc' = "awaiting"]_vars

C18_Witness ==
    /\ pc = "awaiting"
    /\ OutputNotYetPublished
    /\ Len(order) = 3
    /\ timeToFinalizeResult.status = "pending"
    /\ ~HasResult

====
